---- MODULE Spec2Model ----
(***************************************************************************)
(* The worker pool of hello/src/lib.rs: ThreadPool::new, ThreadPool::execute, *)
(* Drop for ThreadPool and the worker loop spawned by Worker::new, over the  *)
(* mpsc channel and the Arc<Mutex<Receiver>> they share.                     *)
(***************************************************************************)
EXTENDS Integers, Sequences, FiniteSets, TLC

\* Largest worker count passed to ThreadPool::new.
MaxWorkers == 2
\* Largest number of calls of ThreadPool::execute.
MaxJobs == 3

VARIABLES
    n_workers,   \* the argument of ThreadPool::new
    mainPc,      \* where the owner of the pool is: in new, using the pool, in drop
    sender,      \* the sending half: "uncreated", "Some" (tx / self.sender), "None" (taken)
    queue,       \* the channel's pending jobs, oldest first
    rxRefs,      \* strong count of the Arc<Mutex<Receiver>>; the receiver lives while > 0
    locked,      \* the Mutex around the receiver is held
    poisoned,    \* a thread panicked while holding the Mutex
    workers,     \* ThreadPool.workers: Vec<Worker>, records [id, thread]
    joinIdx,     \* drop's position in `for worker in &mut self.workers` (0-based)
    joins,       \* per worker id: how many times its handle was joined
    pc,          \* per worker id: where its thread is in the loop
    guard,       \* per worker id: the thread owns the MutexGuard `receiver`
    message,     \* per worker id: the result of receiver.recv()
    calls,       \* number of calls of execute so far; call k submits job k
    jobState,    \* per job: its fate
    execCount,   \* per job: how many times job() was invoked
    takenBy,     \* per job: the worker ids whose recv returned it
    counter,     \* the shared counter every job increments when it runs to its end
    backlog,     \* history: how many jobs were buffered when drop took the sender, if
                 \* none had been dequeued by then (0 otherwise)
    panicsSeen   \* history: how many threads had panicked when the Mutex was last
                 \* acquired

vars == <<n_workers, mainPc, sender, queue, rxRefs, locked, poisoned, workers,
          joinIdx, joins, pc, guard, message, calls, jobState, execCount,
          takenBy, counter, backlog, panicsSeen>>

\* Worker ids (0..n_workers-1 in the code) and job identities (call order of execute).
Ids == 0 .. (MaxWorkers - 1)
Jobs == 1 .. MaxJobs

\* Result<Job, RecvError> of receiver.recv(), and "no message yet".
NoMsg == [tag |-> "None", job |-> 0]
ErrMsg == [tag |-> "Err", job |-> 0]
OkMsg(j) == [tag |-> "Ok", job |-> j]

\* The ids of the workers pushed into self.workers so far.
Spawned == {workers[k].id : k \in 1 .. Len(workers)}

\* A thread that has returned from its closure or unwound from a panic.
Terminated(w) == pc[w] \in {"stopped", "panicked"}

\* How many worker threads have unwound from a panic.
Panicked == Cardinality({w \in Ids : pc[w] = "panicked"})

\* drop has begun (and possibly ended).
ShutdownBegun == mainPc \in {"drop_take", "drop_join", "done", "drop_panicked"}

TypeOK ==
    /\ n_workers \in 0 .. MaxWorkers
    /\ mainPc \in {"new_assert", "new_channel", "new_spawn", "running", "drop_take",
                   "drop_join", "done", "new_panicked", "drop_panicked",
                   "execute_panicked"}
    /\ sender \in {"uncreated", "Some", "None"}
    /\ queue \in Seq(Jobs)
    /\ rxRefs \in 0 .. (MaxWorkers + 1)
    /\ locked \in BOOLEAN
    /\ poisoned \in BOOLEAN
    /\ workers \in Seq([id : Ids, thread : {"Some", "None"}])
    /\ joinIdx \in 0 .. MaxWorkers
    /\ joins \in [Ids -> Nat]
    /\ pc \in [Ids -> {"unspawned", "lock", "recv", "drop_guard", "match", "exec",
                       "stopped", "panicked"}]
    /\ guard \in [Ids -> BOOLEAN]
    /\ message \in [Ids -> {NoMsg, ErrMsg} \cup {OkMsg(j) : j \in Jobs}]
    /\ calls \in 0 .. MaxJobs
    /\ jobState \in [Jobs -> {"unsubmitted", "queued", "received", "running",
                              "finished", "panicked", "discarded", "send_failed",
                              "lost"}]
    /\ execCount \in [Jobs -> Nat]
    /\ takenBy \in [Jobs -> SUBSET Ids]
    /\ counter \in Nat
    /\ backlog \in 0 .. MaxJobs
    /\ panicsSeen \in 0 .. MaxWorkers

Init ==
    /\ n_workers \in 0 .. MaxWorkers
    /\ mainPc = "new_assert"
    /\ sender = "uncreated"
    /\ queue = <<>>
    /\ rxRefs = 0
    /\ locked = FALSE
    /\ poisoned = FALSE
    /\ workers = <<>>
    /\ joinIdx = 0
    /\ joins = [w \in Ids |-> 0]
    /\ pc = [w \in Ids |-> "unspawned"]
    /\ guard = [w \in Ids |-> FALSE]
    /\ message = [w \in Ids |-> NoMsg]
    /\ calls = 0
    /\ jobState = [j \in Jobs |-> "unsubmitted"]
    /\ execCount = [j \in Jobs |-> 0]
    /\ takenBy = [j \in Jobs |-> {}]
    /\ counter = 0
    /\ backlog = 0
    /\ panicsSeen = 0

(***************************************************************************)
(* Helpers shared by the steps.                                             *)
(***************************************************************************)

\* The set of jobs held in a sequence.
Range(q) == {q[k] : k \in 1 .. Len(q)}

\* mpsc: the Receiver is dropped together with the last Arc that owns it, and
\* the jobs still buffered in the channel are dropped with it, unrun.
QueueAfterRelease(q, refs) == IF refs = 0 THEN <<>> ELSE q
JobsAfterRelease(js, q, refs) ==
    IF refs = 0
    THEN [j \in Jobs |-> IF j \in Range(q) THEN "lost" ELSE js[j]]
    ELSE js

(***************************************************************************)
(* ThreadPool::new, statement by statement.                                 *)
(***************************************************************************)

\* Variant of NewAssert: the worker-count check is missing.
NewAssert_unchecked ==
    /\ mainPc = "new_assert"
    /\ mainPc' = "new_channel"
    /\ UNCHANGED <<n_workers, backlog, panicsSeen, sender, queue, rxRefs, locked, poisoned, workers,
                   joinIdx, joins, pc, guard, message, calls, jobState,
                   execCount, takenBy, counter>>

\* assert!(n_workers > 0);
NewAssert ==
    /\ mainPc = "new_assert"
    /\ mainPc' = IF n_workers > 0 THEN "new_channel" ELSE "new_panicked"
    /\ UNCHANGED <<n_workers, backlog, panicsSeen, sender, queue, rxRefs, locked, poisoned, workers,
                   joinIdx, joins, pc, guard, message, calls, jobState,
                   execCount, takenBy, counter>>

\* let (tx, rx) = mpsc::channel(); let rx = Arc::new(Mutex::new(rx));
\* let mut workers = Vec::with_capacity(n_workers);
NewChannel ==
    /\ mainPc = "new_channel"
    /\ sender' = "Some"
    /\ queue' = <<>>
    /\ rxRefs' = 1
    /\ locked' = FALSE
    /\ poisoned' = FALSE
    /\ workers' = <<>>
    /\ mainPc' = "new_spawn"
    /\ UNCHANGED <<n_workers, backlog, panicsSeen, joinIdx, joins, pc, guard, message, calls,
                   jobState, execCount, takenBy, counter>>

\* Variant of WorkerNew: every Worker is given the id 0.
WorkerNew_constId(id) ==
    /\ pc' = [pc EXCEPT ![id] = "lock"]
    /\ workers' = Append(workers, [id |-> 0, thread |-> "Some"])

\* Worker::new(id, receiver): spawns the thread, which starts at the top of its
\* loop owning the Arc it was given, and returns Worker { id, thread: Some(..) }.
WorkerNew(id) ==
    /\ pc' = [pc EXCEPT ![id] = "lock"]
    /\ workers' = Append(workers, [id |-> id, thread |-> "Some"])

\* One iteration of `for id in 0..n_workers`:
\* workers.push(Worker::new(id, Arc::clone(&rx)));
NewSpawn ==
    /\ mainPc = "new_spawn"
    /\ Len(workers) < n_workers
    /\ rxRefs' = rxRefs + 1
    /\ WorkerNew(Len(workers))
    /\ UNCHANGED <<n_workers, backlog, panicsSeen, mainPc, sender, queue, locked, poisoned, joinIdx,
                   joins, guard, message, calls, jobState, execCount, takenBy,
                   counter>>

\* return ThreadPool { workers, sender: Some(tx) }; the local `rx` Arc is dropped.
NewReturn ==
    /\ mainPc = "new_spawn"
    /\ Len(workers) >= n_workers
    /\ mainPc' = "running"
    /\ rxRefs' = rxRefs - 1
    /\ queue' = QueueAfterRelease(queue, rxRefs')
    /\ jobState' = JobsAfterRelease(jobState, queue, rxRefs')
    /\ UNCHANGED <<n_workers, backlog, panicsSeen, sender, locked, poisoned, workers, joinIdx, joins,
                   pc, guard, message, calls, execCount, takenBy, counter>>

(***************************************************************************)
(* The worker loop of Worker::new, one step per statement.                  *)
(***************************************************************************)

\* Variant of Lock: the receiver is taken without waiting for the Mutex.
Lock_noWait(w) ==
    /\ pc[w] = "lock"
    /\ pc' = [pc EXCEPT ![w] = "recv"]
    /\ locked' = TRUE
    /\ guard' = [guard EXCEPT ![w] = TRUE]
    /\ panicsSeen' = Panicked
    /\ UNCHANGED <<n_workers, backlog, mainPc, sender, poisoned, workers, joinIdx, joins,
                   message, calls, execCount, takenBy, counter, rxRefs, queue,
                   jobState>>

\* let receiver = receiver.lock().unwrap();
\* Blocks while the Mutex is held. A poisoned Mutex makes lock() return Err
\* (with the guard inside it), and unwrap() panics, releasing that guard.
Lock(w) ==
    /\ pc[w] = "lock"
    /\ ~locked
    /\ IF poisoned
       THEN /\ pc' = [pc EXCEPT ![w] = "panicked"]
            /\ rxRefs' = rxRefs - 1
            /\ queue' = QueueAfterRelease(queue, rxRefs')
            /\ jobState' = JobsAfterRelease(jobState, queue, rxRefs')
            /\ UNCHANGED <<locked, guard, panicsSeen>>
       ELSE /\ pc' = [pc EXCEPT ![w] = "recv"]
            /\ locked' = TRUE
            /\ guard' = [guard EXCEPT ![w] = TRUE]
            /\ panicsSeen' = Panicked
            /\ UNCHANGED <<rxRefs, queue, jobState>>
    /\ UNCHANGED <<n_workers, backlog, mainPc, sender, poisoned, workers, joinIdx, joins,
                   message, calls, execCount, takenBy, counter>>

\* Variant of RecvOk: the newest buffered job is returned (a stack, not a queue).
RecvOk_newest(w) ==
    /\ pc[w] = "recv"
    /\ queue # <<>>
    /\ message' = [message EXCEPT ![w] = OkMsg(queue[Len(queue)])]
    /\ queue' = SubSeq(queue, 1, Len(queue) - 1)
    /\ jobState' = [jobState EXCEPT ![queue[Len(queue)]] = "received"]
    /\ takenBy' = [takenBy EXCEPT ![queue[Len(queue)]] = @ \cup {w}]
    /\ pc' = [pc EXCEPT ![w] = "drop_guard"]
    /\ UNCHANGED <<n_workers, backlog, panicsSeen, mainPc, sender, rxRefs, locked, poisoned, workers,
                   joinIdx, joins, guard, calls, execCount, counter>>

\* let message = receiver.recv();    -- a job is buffered: Ok(oldest job)
RecvOk(w) ==
    /\ pc[w] = "recv"
    /\ queue # <<>>
    /\ message' = [message EXCEPT ![w] = OkMsg(Head(queue))]
    /\ queue' = Tail(queue)
    /\ jobState' = [jobState EXCEPT ![Head(queue)] = "received"]
    /\ takenBy' = [takenBy EXCEPT ![Head(queue)] = @ \cup {w}]
    /\ pc' = [pc EXCEPT ![w] = "drop_guard"]
    /\ UNCHANGED <<n_workers, backlog, panicsSeen, mainPc, sender, rxRefs, locked, poisoned, workers,
                   joinIdx, joins, guard, calls, execCount, counter>>

\* Variant of RecvErr: Err as soon as the Sender is gone, buffered jobs or not.
RecvErr_onDisconnect(w) ==
    /\ pc[w] = "recv"
    /\ sender # "Some"
    /\ message' = [message EXCEPT ![w] = ErrMsg]
    /\ pc' = [pc EXCEPT ![w] = "drop_guard"]
    /\ UNCHANGED <<n_workers, backlog, panicsSeen, mainPc, sender, queue, rxRefs, locked, poisoned,
                   workers, joinIdx, joins, guard, calls, jobState, execCount,
                   takenBy, counter>>

\* Variant of RecvErr: the result of recv is unwrapped while the guard is held
\* (`receiver.recv().unwrap()`), so a closed channel panics the thread, and the
\* guard dropped in the unwinding poisons the Mutex.
RecvErr_unwrap(w) ==
    /\ pc[w] = "recv"
    /\ queue = <<>>
    /\ sender # "Some"
    /\ pc' = [pc EXCEPT ![w] = "panicked"]
    /\ guard' = [guard EXCEPT ![w] = FALSE]
    /\ locked' = FALSE
    /\ poisoned' = TRUE
    /\ rxRefs' = rxRefs - 1
    /\ UNCHANGED <<n_workers, backlog, panicsSeen, mainPc, sender, queue, workers,
                   joinIdx, joins, message, calls, jobState, execCount, takenBy,
                   counter>>

\* let message = receiver.recv();    -- nothing buffered and every Sender is
\* gone: Err(RecvError). With a Sender alive and nothing buffered recv blocks.
RecvErr(w) ==
    /\ pc[w] = "recv"
    /\ queue = <<>>
    /\ sender # "Some"
    /\ message' = [message EXCEPT ![w] = ErrMsg]
    /\ pc' = [pc EXCEPT ![w] = "drop_guard"]
    /\ UNCHANGED <<n_workers, backlog, panicsSeen, mainPc, sender, queue, rxRefs, locked, poisoned,
                   workers, joinIdx, joins, guard, calls, jobState, execCount,
                   takenBy, counter>>

\* Variant of DropGuard: drop(receiver) is missing, so the guard lives until
\* the end of the loop's iteration.
DropGuard_skipped(w) ==
    /\ pc[w] = "drop_guard"
    /\ pc' = [pc EXCEPT ![w] = "match"]
    /\ UNCHANGED <<n_workers, backlog, panicsSeen, mainPc, sender, queue, rxRefs,
                   poisoned, workers, joinIdx, joins, message, calls, jobState,
                   execCount, takenBy, counter, guard, locked>>

\* drop(receiver);    -- the MutexGuard, which unlocks the Mutex
DropGuard(w) ==
    /\ pc[w] = "drop_guard"
    /\ guard' = [guard EXCEPT ![w] = FALSE]
    /\ locked' = FALSE
    /\ pc' = [pc EXCEPT ![w] = "match"]
    /\ UNCHANGED <<n_workers, backlog, panicsSeen, mainPc, sender, queue, rxRefs, poisoned, workers,
                   joinIdx, joins, message, calls, jobState, execCount, takenBy,
                   counter>>

\* Variant of MatchOk: the received job is dropped without being called.
MatchOk_notCalled(w) ==
    /\ pc[w] = "match"
    /\ message[w].tag = "Ok"
    /\ pc' = [pc EXCEPT ![w] = "lock"]
    /\ jobState' = [jobState EXCEPT ![message[w].job] = "lost"]
    /\ message' = [message EXCEPT ![w] = NoMsg]
    /\ UNCHANGED <<n_workers, backlog, panicsSeen, mainPc, sender, queue, rxRefs, locked, poisoned,
                   workers, joinIdx, joins, guard, calls, takenBy, counter,
                   execCount>>

\* Variant of MatchOk: the job is started on a thread of its own and the worker
\* goes back to the channel without waiting for it.
MatchOk_detached(w) ==
    /\ pc[w] = "match"
    /\ message[w].tag = "Ok"
    /\ pc' = [pc EXCEPT ![w] = "lock"]
    /\ jobState' = [jobState EXCEPT ![message[w].job] = "running"]
    /\ execCount' = [execCount EXCEPT ![message[w].job] = @ + 1]
    /\ message' = [message EXCEPT ![w] = NoMsg]
    /\ UNCHANGED <<n_workers, backlog, panicsSeen, mainPc, sender, queue, rxRefs, locked, poisoned,
                   workers, joinIdx, joins, guard, calls, takenBy, counter>>

\* match message { Ok(job) => { println!(..); job();    -- job() is entered
MatchOk(w) ==
    /\ pc[w] = "match"
    /\ message[w].tag = "Ok"
    /\ pc' = [pc EXCEPT ![w] = "exec"]
    /\ jobState' = [jobState EXCEPT ![message[w].job] = "running"]
    /\ execCount' = [execCount EXCEPT ![message[w].job] = @ + 1]
    /\ UNCHANGED <<n_workers, backlog, panicsSeen, mainPc, sender, queue, rxRefs, locked, poisoned,
                   workers, joinIdx, joins, guard, message, calls, takenBy,
                   counter>>

\* Variant of MatchErr: the Err arm does not leave the loop.
MatchErr_continue(w) ==
    /\ pc[w] = "match"
    /\ message[w].tag = "Err"
    /\ pc' = [pc EXCEPT ![w] = "lock"]
    /\ message' = [message EXCEPT ![w] = NoMsg]
    /\ UNCHANGED <<n_workers, backlog, panicsSeen, mainPc, sender, poisoned, workers,
                   joinIdx, joins, calls, execCount, takenBy, counter, guard,
                   locked, rxRefs, queue, jobState>>

\* match message { Err(_) => { println!(..); break; } }
\* The closure returns: the thread ends and drops what it owns (its Arc, and
\* the guard if it still had it).
MatchErr(w) ==
    /\ pc[w] = "match"
    /\ message[w].tag = "Err"
    /\ pc' = [pc EXCEPT ![w] = "stopped"]
    /\ guard' = [guard EXCEPT ![w] = FALSE]
    /\ locked' = IF guard[w] THEN FALSE ELSE locked
    /\ rxRefs' = rxRefs - 1
    /\ queue' = QueueAfterRelease(queue, rxRefs')
    /\ jobState' = JobsAfterRelease(jobState, queue, rxRefs')
    /\ UNCHANGED <<n_workers, backlog, panicsSeen, mainPc, sender, poisoned, workers, joinIdx, joins,
                   message, calls, execCount, takenBy, counter>>

\* job() returns; println!("... finished job; waiting."); the iteration ends
\* (dropping the guard if the thread still had it) and the loop starts over.
JobFinish(w) ==
    /\ pc[w] = "exec"
    /\ jobState' = [jobState EXCEPT ![message[w].job] = "finished"]
    /\ counter' = counter + 1
    /\ message' = [message EXCEPT ![w] = NoMsg]
    /\ guard' = [guard EXCEPT ![w] = FALSE]
    /\ locked' = IF guard[w] THEN FALSE ELSE locked
    /\ pc' = [pc EXCEPT ![w] = "lock"]
    /\ UNCHANGED <<n_workers, backlog, panicsSeen, mainPc, sender, queue, rxRefs, poisoned, workers,
                   joinIdx, joins, calls, execCount, takenBy>>

\* Variant of JobPanic: the panic takes the whole process down (every worker
\* thread ends with it), as under panic = "abort".
JobPanic_killsAll(w) ==
    /\ pc[w] = "exec"
    /\ jobState' = [j \in Jobs |->
                       IF j = message[w].job THEN "panicked"
                       ELSE IF j \in Range(queue) THEN "lost" ELSE jobState[j]]
    /\ pc' = [v \in Ids |-> IF pc[v] \in {"unspawned", "stopped"} THEN pc[v]
                            ELSE "panicked"]
    /\ guard' = [v \in Ids |-> FALSE]
    /\ locked' = FALSE
    /\ rxRefs' = 0
    /\ queue' = <<>>
    /\ UNCHANGED <<n_workers, backlog, panicsSeen, mainPc, sender, workers, joinIdx,
                   joins, message, calls, execCount, takenBy, counter, poisoned>>

\* job() panics: nothing in the loop catches it, the thread unwinds and drops
\* what it owns; a MutexGuard dropped while panicking poisons the Mutex.
JobPanic(w) ==
    /\ pc[w] = "exec"
    /\ jobState' = [jobState EXCEPT ![message[w].job] = "panicked"]
    /\ pc' = [pc EXCEPT ![w] = "panicked"]
    /\ guard' = [guard EXCEPT ![w] = FALSE]
    /\ locked' = IF guard[w] THEN FALSE ELSE locked
    /\ poisoned' = (poisoned \/ guard[w])
    /\ rxRefs' = rxRefs - 1
    /\ queue' = QueueAfterRelease(queue, rxRefs')
    /\ LET js == [jobState EXCEPT ![message[w].job] = "panicked"]
       IN  jobState' = JobsAfterRelease(js, queue, rxRefs')
    /\ UNCHANGED <<n_workers, backlog, panicsSeen, mainPc, sender, workers, joinIdx, joins, message,
                   calls, execCount, takenBy, counter>>

(***************************************************************************)
(* ThreadPool::execute and Drop for ThreadPool.                             *)
(***************************************************************************)

\* The states in which a caller can hold the pool and call execute on it:
\* from the return of new on, while the pool has not been torn down.
PoolLive == mainPc \in {"running", "drop_take", "drop_join"}

\* Variant of Execute: the absent sender is unwrapped instead of tested.
Execute_unwrapSender ==
    /\ PoolLive
    /\ calls < MaxJobs
    /\ calls' = calls + 1
    /\ IF sender = "Some" /\ rxRefs > 0
       THEN /\ queue' = Append(queue, calls + 1)
            /\ jobState' = [jobState EXCEPT ![calls + 1] = "queued"]
            /\ UNCHANGED mainPc
       ELSE /\ jobState' = [jobState EXCEPT ![calls + 1] = "send_failed"]
            /\ mainPc' = "execute_panicked"
            /\ UNCHANGED queue
    /\ UNCHANGED <<n_workers, backlog, panicsSeen, sender, rxRefs, locked, poisoned, workers, joinIdx,
                   joins, pc, guard, message, execCount, takenBy, counter>>

\* pub fn execute(&mut self, f): call number calls+1, submitting job calls+1.
\*   if let Some(sender) = &self.sender { sender.send(Box::new(f)).unwrap(); }
\* send never blocks (the channel is unbounded); it returns Err, and unwrap
\* panics, exactly when the Receiver has been dropped. The panic leaves the
\* caller in "execute_panicked"; what its unwinding does next is the caller's.
\* The None branch is reached by a call made once drop has taken the sender.
Execute ==
    /\ PoolLive
    /\ calls < MaxJobs
    /\ calls' = calls + 1
    /\ IF sender = "Some"
       THEN IF rxRefs > 0
            THEN /\ queue' = Append(queue, calls + 1)
                 /\ jobState' = [jobState EXCEPT ![calls + 1] = "queued"]
                 /\ UNCHANGED mainPc
            ELSE /\ jobState' = [jobState EXCEPT ![calls + 1] = "send_failed"]
                 /\ mainPc' = "execute_panicked"
                 /\ UNCHANGED queue
       ELSE /\ jobState' = [jobState EXCEPT ![calls + 1] = "discarded"]
            /\ UNCHANGED <<queue, mainPc>>
    /\ UNCHANGED <<n_workers, backlog, panicsSeen, sender, rxRefs, locked, poisoned, workers, joinIdx,
                   joins, pc, guard, message, execCount, takenBy, counter>>

\* Variant of DropSender: drop goes on to join without dropping the sender.
DropSender_keepsSender ==
    /\ mainPc = "running"
    /\ joinIdx' = 0
    /\ mainPc' = "drop_take"
    /\ backlog' = IF Len(queue) = calls THEN Len(queue) ELSE 0
    /\ UNCHANGED <<n_workers, panicsSeen, sender, queue, rxRefs, locked, poisoned,
                   workers, joins, pc, guard, message, calls, jobState, execCount,
                   takenBy, counter>>

\* fn drop(&mut self): drop(self.sender.take());
\* The only Sender is dropped, which disconnects the channel.
DropSender ==
    /\ mainPc = "running"
    /\ sender' = "None"
    /\ joinIdx' = 0
    /\ mainPc' = "drop_take"
    /\ backlog' = IF Len(queue) = calls THEN Len(queue) ELSE 0
    /\ UNCHANGED <<n_workers, panicsSeen, queue, rxRefs, locked, poisoned, workers,
                   joins, pc, guard, message, calls, jobState, execCount, takenBy,
                   counter>>

\* Variant of DropTake: the handle is used without being taken out of the
\* Worker (worker.thread stays Some).
DropTake_notTaken ==
    /\ mainPc = "drop_take"
    /\ IF joinIdx < Len(workers)
       THEN mainPc' = "drop_join"
       ELSE mainPc' = "done"
    /\ UNCHANGED <<n_workers, backlog, panicsSeen, sender, queue, rxRefs, locked,
                   poisoned, joins, pc, guard, message, calls, jobState, execCount,
                   takenBy, counter, workers, joinIdx>>

\* Variant of DropTake: the workers are visited from the last to the first.
DropTake_reversed ==
    /\ mainPc = "drop_take"
    /\ IF joinIdx < Len(workers)
       THEN /\ workers' = [workers EXCEPT ![Len(workers) - joinIdx].thread = "None"]
            /\ mainPc' = "drop_join"
       ELSE /\ mainPc' = "done"
            /\ UNCHANGED workers
    /\ UNCHANGED <<n_workers, backlog, panicsSeen, sender, queue, rxRefs, locked,
                   poisoned, joins, pc, guard, message, calls, jobState, execCount,
                   takenBy, counter, joinIdx>>

\* for worker in &mut self.workers { println!(..);
\*     if let Some(thread) = worker.thread.take() { ...
\* or the end of the loop, where drop returns.
DropTake ==
    /\ mainPc = "drop_take"
    /\ IF joinIdx < Len(workers)
       THEN IF workers[joinIdx + 1].thread = "Some"
            THEN /\ workers' = [workers EXCEPT ![joinIdx + 1].thread = "None"]
                 /\ mainPc' = "drop_join"
                 /\ UNCHANGED joinIdx
            ELSE /\ joinIdx' = joinIdx + 1
                 /\ UNCHANGED <<workers, mainPc>>
       ELSE /\ mainPc' = "done"
            /\ UNCHANGED <<workers, joinIdx>>
    /\ UNCHANGED <<n_workers, backlog, panicsSeen, sender, queue, rxRefs, locked, poisoned, joins, pc,
                   guard, message, calls, jobState, execCount, takenBy, counter>>

\* Variant of DropJoin: the handle is dropped (detached) instead of joined, so
\* drop does not wait for the thread.
DropJoin_detach ==
    /\ mainPc = "drop_join"
    /\ LET w == workers[joinIdx + 1].id
       IN  /\ joins' = [joins EXCEPT ![w] = @ + 1]
           /\ mainPc' = "drop_take"
           /\ joinIdx' = joinIdx + 1
    /\ UNCHANGED <<n_workers, backlog, panicsSeen, sender, queue, rxRefs, locked, poisoned, workers, pc,
                   guard, message, calls, jobState, execCount, takenBy, counter>>

\* Variant of DropJoin: the result of join is ignored (`let _ = thread.join();`).
DropJoin_ignoreErr ==
    /\ mainPc = "drop_join"
    /\ LET w == workers[joinIdx + 1].id
       IN  /\ Terminated(w)
           /\ joins' = [joins EXCEPT ![w] = @ + 1]
           /\ mainPc' = "drop_take"
           /\ joinIdx' = joinIdx + 1
    /\ UNCHANGED <<n_workers, backlog, panicsSeen, sender, queue, rxRefs, locked,
                   poisoned, workers, pc, guard, message, calls, jobState,
                   execCount, takenBy, counter>>

\* Variant of DropJoin: when a join reports a panic, the remaining workers are
\* joined as well before drop panics.
DropJoin_joinsRest ==
    /\ mainPc = "drop_join"
    /\ LET w == workers[joinIdx + 1].id
           rest == {workers[k].id : k \in (joinIdx + 2) .. Len(workers)}
       IN  /\ Terminated(w)
           /\ IF pc[w] = "panicked"
              THEN /\ \A v \in rest : Terminated(v)
                   /\ joins' = [v \in Ids |-> IF v = w \/ v \in rest
                                              THEN joins[v] + 1 ELSE joins[v]]
                   /\ mainPc' = "drop_panicked"
                   /\ UNCHANGED joinIdx
              ELSE /\ joins' = [joins EXCEPT ![w] = @ + 1]
                   /\ mainPc' = "drop_take"
                   /\ joinIdx' = joinIdx + 1
    /\ UNCHANGED <<n_workers, backlog, panicsSeen, sender, queue, rxRefs, locked,
                   poisoned, workers, pc, guard, message, calls, jobState,
                   execCount, takenBy, counter>>

\* thread.join().expect("A thread panicked while calling `join`.")
\* join blocks until the thread has ended; it returns Err when the thread
\* panicked, and expect then panics out of drop.
DropJoin ==
    /\ mainPc = "drop_join"
    /\ LET w == workers[joinIdx + 1].id
       IN  /\ Terminated(w)
           /\ joins' = [joins EXCEPT ![w] = @ + 1]
           /\ IF pc[w] = "panicked"
              THEN /\ mainPc' = "drop_panicked"
                   /\ UNCHANGED joinIdx
              ELSE /\ mainPc' = "drop_take"
                   /\ joinIdx' = joinIdx + 1
    /\ UNCHANGED <<n_workers, backlog, panicsSeen, sender, queue, rxRefs, locked, poisoned, workers, pc,
                   guard, message, calls, jobState, execCount, takenBy, counter>>

(***************************************************************************)
(* The system: the owner of the pool and the worker threads, interleaved.   *)
(***************************************************************************)

Next ==
    \/ NewAssert
    \/ NewChannel
    \/ NewSpawn
    \/ NewReturn
    \/ Execute
    \/ DropSender
    \/ DropTake
    \/ DropJoin
    \/ \E w \in Ids : Lock(w)
    \/ \E w \in Ids : RecvOk(w)
    \/ \E w \in Ids : RecvErr(w)
    \/ \E w \in Ids : DropGuard(w)
    \/ \E w \in Ids : MatchOk(w)
    \/ \E w \in Ids : MatchErr(w)
    \/ \E w \in Ids : JobFinish(w)
    \/ \E w \in Ids : JobPanic(w)

Spec == Init /\ [][Next]_vars

(***************************************************************************)
(* Scheduling. Every thread is an operating-system thread that keeps being  *)
(* scheduled: a step of the worker loop that stays possible is taken, and   *)
(* so is a step of drop. Whether a job ever ends is the job's business.     *)
(***************************************************************************)

\* A step of worker w's loop other than the end of the job it runs.
WorkerStep(w) ==
    \/ Lock(w)
    \/ RecvOk(w)
    \/ RecvErr(w)
    \/ DropGuard(w)
    \/ MatchOk(w)
    \/ MatchErr(w)

\* The job worker w runs comes to an end, by returning or by panicking.
JobEnds(w) == JobFinish(w) \/ JobPanic(w)

\* A step of the loop in drop.
DropStep == DropTake \/ DropJoin

\* Any step of worker w's thread.
ThreadStep(w) == WorkerStep(w) \/ JobEnds(w)

\* Threads are scheduled fairly and every job that is run ends.
FairSpec ==
    /\ Spec
    /\ WF_vars(DropStep)
    /\ \A w \in Ids : WF_vars(ThreadStep(w))

\* Worker threads are scheduled fairly; a job may run forever.
FairSpecJobsMayHang ==
    /\ Spec
    /\ \A w \in Ids : WF_vars(WorkerStep(w))

(***************************************************************************)
(* Properties.                                                              *)
(***************************************************************************)

\* A call of execute made while the pool accepted work (the job was not
\* discarded by the absent-sender branch).
SubmittedBeforeShutdown(j) == jobState[j] \notin {"unsubmitted", "discarded"}

\* recv has returned job j to some worker.
Dequeued(j) == takenBy[j] # {}

\* job() has been entered for job j.
Started(j) == jobState[j] \in {"running", "finished", "panicked"}

\* C1: once drop has returned, every job submitted before shutdown began has
\* been run exactly once and to its end, so a counter each job increments
\* equals the number of those jobs; and no job is ever run twice.
C1_ExactlyOnceByTeardown ==
    /\ \A j \in Jobs : execCount[j] <= 1
    /\ mainPc = "done" =>
          /\ \A j \in Jobs : SubmittedBeforeShutdown(j) =>
                                /\ execCount[j] = 1
                                /\ jobState[j] = "finished"
          /\ counter = Cardinality({j \in Jobs : SubmittedBeforeShutdown(j)})

\* Teardown has returned after more jobs than workers were submitted; all ran.
C1_Witness ==
    /\ mainPc = "done"
    /\ n_workers = 1
    /\ calls = MaxJobs
    /\ \A j \in Jobs : jobState[j] = "finished" /\ execCount[j] = 1
    /\ counter = MaxJobs

\* C2: at most one worker holds the receiver's lock at a time, and a job that
\* recv has returned was returned to exactly one worker and is no longer in
\* the queue.
C2_ExclusiveDequeue ==
    /\ Cardinality({w \in Ids : guard[w]}) <= 1
    /\ \A w \in Ids : guard[w] => locked
    /\ \A j \in Jobs : Cardinality(takenBy[j]) <= 1
    /\ \A j \in Jobs : Dequeued(j) => j \notin Range(queue)
    /\ \A w1, w2 \in Ids :
          (w1 # w2 /\ message[w1].tag = "Ok" /\ message[w2].tag = "Ok")
             => message[w1].job # message[w2].job

\* Two workers have each taken a different job, and now one holds the lock
\* while the other waits for it.
C2_Witness ==
    \E w1, w2 \in Ids : \E j1, j2 \in Jobs :
        /\ w1 # w2 /\ j1 # j2
        /\ takenBy[j1] = {w1} /\ takenBy[j2] = {w2}
        /\ guard[w1] /\ pc[w1] = "recv"
        /\ pc[w2] = "lock"

\* C3: in every state in which drop has returned, all n_workers threads have
\* ended and the pool has none left running.
C3_TeardownWaitsForWorkers ==
    mainPc = "done" =>
        /\ Len(workers) = n_workers
        /\ \A w \in Ids : IF w < n_workers THEN Terminated(w) ELSE pc[w] = "unspawned"

\* drop has returned for a pool of MaxWorkers workers that ran jobs.
C3_Witness ==
    /\ mainPc = "done"
    /\ n_workers = MaxWorkers
    /\ counter > 0
    /\ \A w \in Ids : pc[w] = "stopped"

\* C4: recv gives Err only when the sender is gone and the queue is empty, so
\* no worker has stopped while a job is still queued, and when drop returns no
\* submitted job is left queued, taken but unstarted, running or dropped unrun:
\* at least the jobs that were queued when shutdown began have all been run.
C4_QueuedWorkIsDrained ==
    /\ \A w \in Ids : message[w].tag = "Err" => (sender = "None" /\ queue = <<>>)
    /\ \A w \in Ids : pc[w] = "stopped" =>
            (queue = <<>> /\ \A j \in Jobs : jobState[j] # "queued")
    /\ mainPc = "done" =>
            /\ \A j \in Jobs :
                  jobState[j] \notin {"queued", "received", "running", "lost"}
            /\ counter >= backlog

\* Shutdown began with MaxJobs jobs queued and none started; drop has returned
\* and all of them have run.
C4_Witness ==
    /\ mainPc = "done"
    /\ backlog = MaxJobs
    /\ counter = MaxJobs

\* C5: a call of execute made while the sender is absent changes nothing but
\* the count of calls and the fate of its job, which is discarded: the queue,
\* the workers, their threads, the sender and the caller's control state stay
\* as they were (no panic); such a call is always possible (it does not block);
\* and a discarded job is never queued, never taken and never run.
C5_PostShutdownSubmitIsNoop ==
    /\ [](\A j \in Jobs : jobState[j] = "discarded" =>
              (execCount[j] = 0 /\ takenBy[j] = {} /\ j \notin Range(queue)))
    /\ []((PoolLive /\ sender = "None" /\ calls < MaxJobs) => ENABLED Execute)
    /\ [][(calls' # calls /\ sender # "Some") =>
              /\ jobState'[calls'] = "discarded"
              /\ \A j \in Jobs \ {calls'} : jobState'[j] = jobState[j]
              /\ UNCHANGED <<mainPc, sender, queue, rxRefs, locked, poisoned,
                             workers, joinIdx, joins, pc, guard, message,
                             execCount, takenBy, counter>>]_vars

\* A job was submitted during teardown and discarded, and teardown has ended.
C5_Witness ==
    /\ mainPc = "done"
    /\ \E j \in Jobs : jobState[j] = "discarded"
    /\ \E j \in Jobs : jobState[j] = "finished"

\* C6: while the pool accepts submissions (sender present) the receiving side
\* is alive, so the send in execute succeeds and execute never panics.
C6_SendNeverFails ==
    /\ sender = "Some" => rxRefs > 0
    /\ mainPc # "execute_panicked"
    /\ \A j \in Jobs : jobState[j] # "send_failed"

\* C7: ThreadPool::new(0) panics at the check, before the channel exists and
\* before any thread is spawned or any Worker is built.
C7_ZeroWorkersPanics ==
    n_workers = 0 =>
        /\ mainPc \in {"new_assert", "new_panicked"}
        /\ sender = "uncreated"
        /\ rxRefs = 0
        /\ workers = <<>>
        /\ \A w \in Ids : pc[w] = "unspawned"

\* new(0) has panicked.
C7_Witness == n_workers = 0 /\ mainPc = "new_panicked"

\* C8: when new(N) has returned and nothing has been submitted yet, N >= 1,
\* the pool has exactly N workers with the ids 0..N-1 in order, each with its
\* thread handle and a running thread at the top of its loop, all N threads
\* share the one receiver (its N owners), the sender is present and the queue
\* is empty.
C8_ConstructedPool ==
    (mainPc = "running" /\ calls = 0) =>
        /\ n_workers >= 1
        /\ Len(workers) = n_workers
        /\ \A k \in 1 .. Len(workers) :
              /\ workers[k].id = k - 1
              /\ workers[k].thread = "Some"
              /\ pc[k - 1] \in {"lock", "recv"}
        /\ \A w \in Ids : w >= n_workers => pc[w] = "unspawned"
        /\ rxRefs = n_workers
        /\ sender = "Some"
        /\ queue = <<>>

\* Every worker of a pool of MaxWorkers workers is executing a job it took.
C8_Witness ==
    /\ n_workers = MaxWorkers
    /\ \A w \in Ids : pc[w] = "exec" /\ takenBy[message[w].job] = {w}

\* C9: the queue holds jobs in submission order and is emptied from the front:
\* for jobs A submitted before B, B is not dequeued before A.
C9_FifoDequeue ==
    /\ \A k, l \in 1 .. Len(queue) : k < l => queue[k] < queue[l]
    /\ \A a, b \in Jobs : (a < b /\ Dequeued(b)) => Dequeued(a)

\* Two jobs were dequeued by different workers while a later one is queued.
C9_Witness ==
    /\ n_workers = MaxWorkers
    /\ \E a, b, c \in Jobs :
          /\ a < b /\ b < c
          /\ takenBy[a] = {1} /\ takenBy[b] = {0}
          /\ jobState[c] = "queued"

\* C10: with one worker, for jobs A submitted before B, B is not started
\* before A has finished.
C10_SingleWorkerSerializes ==
    n_workers = 1 =>
        \A a, b \in Jobs : (a < b /\ Started(b)) => jobState[a] = "finished"

\* One worker: the first job has finished, the second runs, the third waits.
C10_Witness ==
    /\ n_workers = 1
    /\ jobState[1] = "finished"
    /\ jobState[2] = "running"
    /\ jobState[3] = "queued"

C12_TeardownReportsAbnormalExit ==
    /\ [](mainPc = "drop_panicked" =>
             /\ joinIdx < Len(workers)
             /\ pc[workers[joinIdx + 1].id] = "panicked"
             /\ joins[workers[joinIdx + 1].id] = 1)
    /\ [](mainPc = "done" =>
             \A k \in 1 .. Len(workers) : pc[workers[k].id] = "stopped")
    /\ [][(mainPc' = "drop_panicked" /\ mainPc # "drop_panicked") =>
             mainPc = "drop_join"]_vars
    /\ [][(\E w \in Ids : pc[w] # "panicked" /\ pc'[w] = "panicked") =>
             mainPc' = mainPc]_vars

\* drop joined worker 0, which had ended normally, and panicked at the join of
\* worker 1, whose job had panicked.
C12_Witness ==
    /\ mainPc = "drop_panicked"
    /\ joinIdx = 1
    /\ pc[0] = "stopped"
    /\ pc[1] = "panicked"
    /\ jobState[message[1].job] = "panicked"

\* C13: once drop has begun, with fair scheduling and jobs that end, every
\* worker thread ends (Stopped, or dead of its job's panic) and drop ends: it
\* returns unless a worker's job panicked.
C13_ShutdownTerminates ==
    ShutdownBegun ~>
        /\ \A k \in 1 .. Len(workers) : Terminated(workers[k].id)
        /\ mainPc \in {"done", "drop_panicked"}
        /\ mainPc = "done" \/ Panicked > 0

\* drop has returned for a pool of MaxWorkers workers that was torn down with
\* jobs still queued while every call of execute had been made.
C13_Witness ==
    /\ mainPc = "done"
    /\ n_workers = MaxWorkers
    /\ calls = MaxJobs
    /\ backlog > 0
    /\ \A w \in Ids : pc[w] = "stopped"

\* C14: no worker that is executing a job holds the receiver's lock: a guard
\* is held only from its acquisition to drop(receiver), and the Mutex is held
\* exactly while some worker holds a guard.
C14_LockReleasedBeforeJob ==
    /\ \A w \in Ids : pc[w] = "exec" => ~guard[w]
    /\ \A w \in Ids : guard[w] <=> pc[w] \in {"recv", "drop_guard"}
    /\ locked <=> (\E w \in Ids : guard[w])

\* Worker 0 is running a job while worker 1 holds the lock, blocked in recv.
C14_Witness ==
    /\ pc[0] = "exec"
    /\ ~guard[0]
    /\ pc[1] = "recv"
    /\ guard[1]
    /\ queue = <<>>

\* A worker that is not executing a job and has none in hand: it waits for
\* one, at the lock or in recv.
Waiting(w) == pc[w] \in {"lock", "recv"}

\* C15 as stated: whenever a job is queued and some worker is not executing a
\* job (it waits for one), that job is eventually started, even if running
\* jobs never end.
C15_AnyQueuedJobStarts ==
    \A j \in Jobs :
        (jobState[j] = "queued" /\ \E w \in Ids : Waiting(w)) ~> Started(j)

\* C15, amended: whenever a job is queued with fewer jobs ahead of it than
\* there are workers waiting for a job, it is eventually started, even if
\* running jobs never end.
C15_QueuedJobWithinReachStarts ==
    \A j \in Jobs :
        (\E k \in 1 .. Len(queue) :
            /\ queue[k] = j
            /\ Cardinality({w \in Ids : Waiting(w)}) >= k) ~> Started(j)

\* MaxWorkers jobs are executing at the same time, one on each worker, while
\* the pool still accepts work.
C15_Witness ==
    /\ n_workers = MaxWorkers
    /\ sender = "Some"
    /\ Cardinality({j \in Jobs : jobState[j] = "running"}) = MaxWorkers
    /\ \A w \in Ids : pc[w] = "exec" /\ jobState[message[w].job] = "running"

\* C16: the sender is absent exactly when drop has begun; it exists from the
\* creation of the channel; it changes only by being created in new and by
\* being taken, once, at the start of drop; no step makes an absent sender
\* present again, and a call of execute never changes it.
C16_SenderPresence ==
    /\ [](sender = "None" <=> ShutdownBegun)
    /\ [](sender = "uncreated" <=> mainPc \in {"new_assert", "new_channel", "new_panicked"})
    /\ [][sender = "None" => sender' = "None"]_vars
    /\ [][sender' # sender =>
             \/ sender = "uncreated" /\ sender' = "Some" /\ mainPc = "new_channel"
             \/ sender = "Some" /\ sender' = "None" /\ mainPc = "running"
                                /\ mainPc' = "drop_take"]_vars
    /\ [][calls' # calls => sender' = sender]_vars

\* drop is waiting at a join, the sender is absent, and execute was called both
\* before shutdown (a job ran) and after it began (a job was discarded).
C16_Witness ==
    /\ mainPc = "drop_join"
    /\ sender = "None"
    /\ \E j \in Jobs : jobState[j] = "discarded"
    /\ \E j \in Jobs : jobState[j] = "finished"

\* drop has taken the handle of the k-th worker of self.workers.
HandleTaken(k) ==
    /\ ShutdownBegun
    /\ \/ joinIdx > k - 1
       \/ joinIdx = k - 1 /\ mainPc \in {"drop_join", "drop_panicked"}

\* C17: no worker's handle is joined more than once; a handle is present from
\* the construction of its Worker until drop takes it, it is taken exactly for
\* the join of that worker (joined once that join has returned), and a taken
\* handle is never restored.
C17_HandleJoinedAtMostOnce ==
    /\ [](\A k \in 1 .. Len(workers) :
             LET w == workers[k].id
             IN  /\ joins[w] <= 1
                 /\ workers[k].thread = "None" <=> HandleTaken(k)
                 /\ joins[w] = 1 <=>
                       (HandleTaken(k) /\ ~(mainPc = "drop_join" /\ joinIdx = k - 1)))
    /\ [](\A w \in Ids \ Spawned : joins[w] = 0)
    /\ [][\A k \in 1 .. Len(workers) :
             /\ workers[k].thread = "None" => workers'[k].thread = "None"
             /\ joins'[workers[k].id] >= joins[workers[k].id]]_vars

\* drop has returned: each of MaxWorkers handles was taken and joined once.
C17_Witness ==
    /\ mainPc = "done"
    /\ Len(workers) = MaxWorkers
    /\ \A k \in 1 .. Len(workers) :
          workers[k].thread = "None" /\ joins[workers[k].id] = 1

\* C18: drop closes the sending side before it takes or joins any worker, and
\* takes and joins the workers one at a time in the order of self.workers:
\* when worker k's handle is taken, every earlier worker has been joined (and
\* so has ended), and no worker is joined while the channel is open.
C18_TeardownOrder ==
    /\ mainPc = "drop_join" => sender = "None"
    /\ \A w \in Ids : joins[w] > 0 => sender = "None"
    /\ \A k \in 1 .. Len(workers) :
          workers[k].thread = "None" =>
             /\ sender = "None"
             /\ \A i \in 1 .. (k - 1) :
                   /\ workers[i].thread = "None"
                   /\ joins[workers[i].id] = 1
                   /\ Terminated(workers[i].id)
    /\ \A k \in 1 .. Len(workers) :
          joins[workers[k].id] > 0 => \A i \in 1 .. (k - 1) : joins[workers[i].id] > 0

\* Worker 0 has been joined and drop waits at the join of worker 1, which is
\* still running a job.
C18_Witness ==
    /\ mainPc = "drop_join"
    /\ joinIdx = 1
    /\ joins[0] = 1
    /\ joins[1] = 0
    /\ pc[1] = "exec"

C20_TeardownStopsAtFirstPanic ==
    /\ [](mainPc = "drop_panicked" =>
             \A k \in (joinIdx + 2) .. Len(workers) :
                 joins[workers[k].id] = 0 /\ workers[k].thread = "Some")
    /\ [][mainPc = "drop_panicked" => UNCHANGED <<mainPc, joinIdx, joins, workers>>]_vars

\* drop has panicked at the join of worker 0 while worker 1, never joined, is
\* still running a job.
C20_Witness ==
    /\ mainPc = "drop_panicked"
    /\ Len(workers) >= 2
    /\ joinIdx = 0
    /\ joins[1] = 0
    /\ workers[2].thread = "Some"
    /\ pc[1] = "exec"

====
